---- MODULE Spec2Model ----
(***************************************************************************)
(* Model of the two scripts of the repository:                             *)
(*   summarize_map_reduce.py  summarize_text, the map-reduce driver        *)
(*   app.py                   search_scopus, the paginated Scopus search   *)
(* The text splitter, the chat model and the HTTP endpoint are external    *)
(* libraries/services: the model takes their results as nondeterministic   *)
(* inputs and models only what the repository's code does with them.       *)
(***************************************************************************)
EXTENDS Integers, Sequences, FiniteSets, TLC

\* ------------------------------------------------------------- bounds
MaxLen == 2
MaxChunks == 3
MaxCount == 2
MaxResults == 3
MaxTotal == 4
MaxPage == 2

\* ------------------------------------------------------------- alphabets
Whitespace == {" ", "\n"}
Chars == Whitespace \cup {"a"}
Texts == UNION {[1..n -> Chars] : n \in 0..MaxLen}
\* page_content of a document produced by the external splitter
ChunkVals == {<<"p">>, <<"q">>}
\* text returned by the external completion client
SummaryVals == {<<"x">>, <<"y", "z">>}
\* exceptions the external completion client can raise
ProviderErrors == {"Retryable", "Fatal"}

VARIABLES
    text,            \* summarize_text: argument text
    pc,              \* summarize_text: position in the function body
    docs,            \* summarize_text: docs (page_content of each document)
    partial,         \* summarize_text: partial_summaries
    final,           \* summarize_text: final_summary
    outcome,         \* how the call of summarize_text ended
    calls,           \* completion calls issued so far, in order
    responses,       \* texts the completion client returned, in order
    raised,          \* the exception the completion client raised, if any
    cancelRequested, \* the caller asked for cancellation (never read by the code)
    callsAtCancel,   \* Len(calls) when the caller asked
    s_pc,            \* search_scopus: position in the function body
    count,           \* search_scopus: argument count
    max_results,     \* search_scopus: argument max_results
    total,           \* search_scopus: total
    entries,         \* search_scopus: entries
    start,           \* search_scopus: loop variable start
    requested,       \* start offsets handed to get_page, in order
    served,          \* entries the endpoint returned, in request order
    result,          \* search_scopus: the SearchResult returned
    s_outcome        \* how the call of search_scopus ended

sumVars == <<text, pc, docs, partial, final, outcome, calls, responses, raised,
             cancelRequested, callsAtCancel>>
scoVars == <<s_pc, count, max_results, total, entries, start, requested, served,
             result, s_outcome>>
vars == <<sumVars, scoVars>>

\* ------------------------------------------------------------- str helpers
RECURSIVE lstrip(_)
lstrip(s) ==
    IF s = <<>> THEN s
    ELSE IF Head(s) \in Whitespace THEN lstrip(Tail(s)) ELSE s

RECURSIVE rstrip(_)
rstrip(s) ==
    IF s = <<>> THEN s
    ELSE IF s[Len(s)] \in Whitespace THEN rstrip(SubSeq(s, 1, Len(s) - 1)) ELSE s

\* str.strip()
strip(s) == rstrip(lstrip(s))

Newlines == <<"\n", "\n">>

\* sep.join(xs)
RECURSIVE Join(_, _)
Join(xs, sep) ==
    IF xs = <<>> THEN <<>>
    ELSE IF Len(xs) = 1 THEN xs[1]
    ELSE xs[1] \o sep \o Join(Tail(xs), sep)

NoOutcome == [kind |-> "none", exc |-> "none"]
Raised(e) == [kind |-> "raised", exc |-> e]
Returned == [kind |-> "returned", exc |-> "none"]
NoRaise == [stage |-> "none", chunk |-> 0, exc |-> "none"]

\* ------------------------------------------------------------- summarize_text
SumInit ==
    /\ text \in Texts
    /\ pc = "start"
    /\ docs = <<>>
    /\ partial = <<>>
    /\ final = <<>>
    /\ outcome = NoOutcome
    /\ calls = <<>>
    /\ responses = <<>>
    /\ raised = NoRaise
    /\ cancelRequested = FALSE
    /\ callsAtCancel = 0

SumIdle ==
    /\ text = <<>>
    /\ pc = "idle"
    /\ docs = <<>>
    /\ partial = <<>>
    /\ final = <<>>
    /\ outcome = NoOutcome
    /\ calls = <<>>
    /\ responses = <<>>
    /\ raised = NoRaise
    /\ cancelRequested = FALSE
    /\ callsAtCancel = 0

\* if not text.strip(): raise ValueError("Input text is empty.")
Validate_NoStrip ==
    /\ pc = "start"
    /\ IF text = <<>>
       THEN /\ pc' = "done"
            /\ outcome' = Raised("ValueError")
       ELSE /\ pc' = "splitter"
            /\ UNCHANGED outcome
    /\ UNCHANGED <<text, docs, partial, final, calls, responses, raised,
                   cancelRequested, callsAtCancel>>

Validate ==
    /\ pc = "start"
    /\ IF strip(text) = <<>>
       THEN /\ pc' = "done"
            /\ outcome' = Raised("ValueError")
       ELSE /\ pc' = "splitter"
            /\ UNCHANGED outcome
    /\ UNCHANGED <<text, docs, partial, final, calls, responses, raised,
                   cancelRequested, callsAtCancel>>

\* splitter = RecursiveCharacterTextSplitter(...): the library's constructor
\* accepts the configuration or raises
NewSplitter(ok) ==
    /\ pc = "splitter"
    /\ IF ok
       THEN /\ pc' = "split"
            /\ UNCHANGED outcome
       ELSE /\ pc' = "done"
            /\ outcome' = Raised("SplitterError")
    /\ UNCHANGED <<text, docs, partial, final, calls, responses, raised,
                   cancelRequested, callsAtCancel>>

\* docs = splitter.create_documents([text]): the library decides the chunks
CreateDocuments(ds) ==
    /\ pc = "split"
    /\ docs' = ds
    /\ pc' = "llm"
    /\ UNCHANGED <<text, partial, final, outcome, calls, responses, raised,
                   cancelRequested, callsAtCancel>>

\* llm = ChatOpenAI(...): the client's constructor succeeds or raises
NewLLM(ok) ==
    /\ pc = "llm"
    /\ IF ok
       THEN /\ pc' = "map"
            /\ UNCHANGED outcome
       ELSE /\ pc' = "done"
            /\ outcome' = Raised("ClientInitError")
    /\ UNCHANGED <<text, docs, partial, final, calls, responses, raised,
                   cancelRequested, callsAtCancel>>

MapCall(i) == [stage |-> "map", chunk |-> i, context |-> docs[i], inputs |-> <<>>]

\* map_chain.invoke({"context": doc.page_content}) for the next doc: issued
MapIssue_FirstDoc ==
    /\ pc = "map"
    /\ Len(partial) < Len(docs)
    /\ calls' = Append(calls, [MapCall(Len(partial) + 1) EXCEPT !.context = docs[1]])
    /\ pc' = "mapwait"
    /\ UNCHANGED <<text, docs, partial, final, outcome, responses, raised,
                   cancelRequested, callsAtCancel>>

MapIssue ==
    /\ pc = "map"
    /\ Len(partial) < Len(docs)
    /\ calls' = Append(calls, MapCall(Len(partial) + 1))
    /\ pc' = "mapwait"
    /\ UNCHANGED <<text, docs, partial, final, outcome, responses, raised,
                   cancelRequested, callsAtCancel>>

\* the invoke returns: its result is the next element of partial_summaries
MapReturn_Prepend(s) ==
    /\ pc = "mapwait"
    /\ partial' = <<s>> \o partial
    /\ responses' = Append(responses, s)
    /\ pc' = "map"
    /\ UNCHANGED <<text, docs, final, outcome, calls, raised,
                   cancelRequested, callsAtCancel>>

MapReturn_StopOnCancel(s) ==
    /\ pc = "mapwait"
    /\ partial' = Append(partial, s)
    /\ responses' = Append(responses, s)
    /\ IF cancelRequested
       THEN /\ pc' = "done"
            /\ outcome' = Raised("Cancelled")
       ELSE /\ pc' = "map"
            /\ UNCHANGED outcome
    /\ UNCHANGED <<text, docs, final, calls, raised,
                   cancelRequested, callsAtCancel>>

MapReturn(s) ==
    /\ pc = "mapwait"
    /\ partial' = Append(partial, s)
    /\ responses' = Append(responses, s)
    /\ pc' = "map"
    /\ UNCHANGED <<text, docs, final, outcome, calls, raised,
                   cancelRequested, callsAtCancel>>

\* the invoke raises: the exception leaves summarize_text
MapRaise_Retry(e) ==
    /\ pc = "mapwait"
    /\ raised' = [stage |-> "map", chunk |-> Len(partial) + 1, exc |-> e]
    /\ pc' = "map"
    /\ UNCHANGED <<text, docs, partial, final, outcome, calls, responses,
                   cancelRequested, callsAtCancel>>

MapRaise(e) ==
    /\ pc = "mapwait"
    /\ raised' = [stage |-> "map", chunk |-> Len(partial) + 1, exc |-> e]
    /\ outcome' = Raised(e)
    /\ pc' = "done"
    /\ UNCHANGED <<text, docs, partial, final, calls, responses,
                   cancelRequested, callsAtCancel>>

\* reduce_chain.invoke({"summaries": "\n\n".join(partial_summaries)}): issued
ReduceCall(ps) ==
    [stage |-> "reduce", chunk |-> 0, context |-> Join(ps, Newlines), inputs |-> ps]

ReduceIssue_DropLast ==
    /\ pc = "map"
    /\ Len(partial) = Len(docs)
    /\ calls' = Append(calls, [ReduceCall(partial) EXCEPT
                     !.context = Join(SubSeq(partial, 1, Len(partial) - 1), Newlines)])
    /\ pc' = "reducewait"
    /\ UNCHANGED <<text, docs, partial, final, outcome, responses, raised,
                   cancelRequested, callsAtCancel>>

ReduceIssue ==
    /\ pc = "map"
    /\ Len(partial) = Len(docs)
    /\ calls' = Append(calls, ReduceCall(partial))
    /\ pc' = "reducewait"
    /\ UNCHANGED <<text, docs, partial, final, outcome, responses, raised,
                   cancelRequested, callsAtCancel>>

\* return final_summary
ReduceReturn(s) ==
    /\ pc = "reducewait"
    /\ final' = s
    /\ responses' = Append(responses, s)
    /\ outcome' = Returned
    /\ pc' = "done"
    /\ UNCHANGED <<text, docs, partial, calls, raised,
                   cancelRequested, callsAtCancel>>

ReduceRaise(e) ==
    /\ pc = "reducewait"
    /\ raised' = [stage |-> "reduce", chunk |-> 0, exc |-> e]
    /\ outcome' = Raised(e)
    /\ pc' = "done"
    /\ UNCHANGED <<text, docs, partial, final, calls, responses,
                   cancelRequested, callsAtCancel>>

\* The caller wants the run cancelled while chunk summarizations are
\* outstanding (a map call is in flight or still to be issued).
\* summarize_text(text, model_name, chunk_size, chunk_overlap) takes no such
\* signal, so nothing in the function reads the request.
Cancel ==
    /\ pc = "mapwait" \/ (pc = "map" /\ Len(partial) < Len(docs))
    /\ ~cancelRequested
    /\ cancelRequested' = TRUE
    /\ callsAtCancel' = Len(calls)
    /\ UNCHANGED <<text, pc, docs, partial, final, outcome, calls, responses, raised>>

DocLists == UNION {[1..n -> ChunkVals] : n \in 0..MaxChunks}

\* ------------------------------------------------------------- search_scopus
Min(a, b) == IF a <= b THEN a ELSE b
Max(a, b) == IF a >= b THEN a ELSE b

\* opensearch:totalResults of a payload: absent, not an integer, or an integer
TotalRaws ==
    {[tag |-> "missing", val |-> 0], [tag |-> "bad", val |-> 0]}
        \cup {[tag |-> "int", val |-> v] : v \in (0 - 1)..MaxTotal}

\* what get_page can do: raise (HTTP error, timeout) or return a payload
\* with n entries
Failure == [ok |-> FALSE, raw |-> [tag |-> "missing", val |-> 0], n |-> 0]
FirstResponses ==
    {Failure} \cup {[ok |-> TRUE, raw |-> r, n |-> k] : r \in TotalRaws, k \in 0..MaxPage}
LaterResponses ==
    {Failure} \cup {[ok |-> TRUE, raw |-> [tag |-> "missing", val |-> 0], n |-> k] :
                        k \in 0..MaxPage}

\* the entries of the page requested at offset st: the k-th is <<st, k>>
PageEntries(st, n) == [k \in 1..n |-> <<st, k>>]

\* parse_total: int(raw), 0 when raw is absent or int() raises
parse_total(raw) == IF raw.tag = "int" THEN raw.val ELSE 0

\* max_to_fetch = min(total, max_results)
MaxToFetch_TotalOnly(t, m) == t

MaxToFetch(t, m) == Min(t, m)

\* entries[:m], Python's slice: a negative m counts from the end
SliceTo(s, m) ==
    IF m >= 0 THEN SubSeq(s, 1, Min(m, Len(s)))
    ELSE SubSeq(s, 1, Max(0, Len(s) + m))

NoResult == [set |-> FALSE, total_results |-> 0, entries |-> <<>>]

\* count and max_results are positive (main takes them from sliders with
\* min_value 10 and 25); either may be the larger one
ScoInit ==
    /\ s_pc = "start"
    /\ count \in 1..MaxCount
    /\ max_results \in 1..MaxResults
    /\ total = 0
    /\ entries = <<>>
    /\ start = 0
    /\ requested = <<>>
    /\ served = <<>>
    /\ result = NoResult
    /\ s_outcome = "none"

ScoIdle ==
    /\ s_pc = "idle"
    /\ count = 1
    /\ max_results = 1
    /\ total = 0
    /\ entries = <<>>
    /\ start = 0
    /\ requested = <<>>
    /\ served = <<>>
    /\ result = NoResult
    /\ s_outcome = "none"

\* payload = get_page(api_key, query, count, 0); total; entries
FirstPage(resp) ==
    /\ s_pc = "start"
    /\ requested' = Append(requested, 0)
    /\ IF resp.ok
       THEN /\ total' = parse_total(resp.raw)
            /\ entries' = PageEntries(0, resp.n)
            /\ served' = PageEntries(0, resp.n)
            /\ start' = count
            /\ s_pc' = "loop"
            /\ UNCHANGED s_outcome
       ELSE /\ s_outcome' = "raised"
            /\ s_pc' = "done"
            /\ UNCHANGED <<total, entries, served, start>>
    /\ UNCHANGED <<count, max_results, result>>

\* one pass of: for start in range(count, max_to_fetch, count)
LoopPage(resp) ==
    /\ s_pc = "loop"
    /\ start < MaxToFetch(total, max_results)
    /\ requested' = Append(requested, start)
    /\ IF resp.ok
       THEN /\ entries' = entries \o PageEntries(start, resp.n)
            /\ served' = served \o PageEntries(start, resp.n)
            /\ start' = start + count
            /\ UNCHANGED <<s_pc, s_outcome>>
       ELSE /\ s_outcome' = "raised"
            /\ s_pc' = "done"
            /\ UNCHANGED <<entries, served, start>>
    /\ UNCHANGED <<count, max_results, total, result>>

\* return SearchResult(total_results=total, entries=entries[:max_to_fetch])
ReturnResult ==
    /\ s_pc = "loop"
    /\ ~(start < MaxToFetch(total, max_results))
    /\ result' = [set |-> TRUE, total_results |-> total,
                  entries |-> SliceTo(entries, MaxToFetch(total, max_results))]
    /\ s_outcome' = "returned"
    /\ s_pc' = "done"
    /\ UNCHANGED <<count, max_results, total, entries, start, requested, served>>

\* ------------------------------------------------------------- specifications
Init == SumInit /\ ScoIdle

Next ==
    \/ Validate /\ UNCHANGED scoVars
    \/ \E ok \in BOOLEAN : NewSplitter(ok) /\ UNCHANGED scoVars
    \/ \E ds \in DocLists : CreateDocuments(ds) /\ UNCHANGED scoVars
    \/ \E ok \in BOOLEAN : NewLLM(ok) /\ UNCHANGED scoVars
    \/ MapIssue /\ UNCHANGED scoVars
    \/ \E s \in SummaryVals : MapReturn(s) /\ UNCHANGED scoVars
    \/ \E e \in ProviderErrors : MapRaise(e) /\ UNCHANGED scoVars
    \/ ReduceIssue /\ UNCHANGED scoVars
    \/ \E s \in SummaryVals : ReduceReturn(s) /\ UNCHANGED scoVars
    \/ \E e \in ProviderErrors : ReduceRaise(e) /\ UNCHANGED scoVars
    \/ Cancel /\ UNCHANGED scoVars

Spec == Init /\ [][Next]_vars

InitScopus == SumIdle /\ ScoInit

NextScopus ==
    \/ \E resp \in FirstResponses : FirstPage(resp) /\ UNCHANGED sumVars
    \/ \E resp \in LaterResponses : LoopPage(resp) /\ UNCHANGED sumVars
    \/ ReturnResult /\ UNCHANGED sumVars

SpecScopus == InitScopus /\ [][NextScopus]_vars

\* ------------------------------------------------------------- properties
ReduceCalls == {j \in 1..Len(calls) : calls[j].stage = "reduce"}
MapCalls == {j \in 1..Len(calls) : calls[j].stage = "map"}

Blank(t) == \A i \in 1..Len(t) : t[i] \in Whitespace

\* C1: a text that is empty or holds only whitespace makes summarize_text fail
\* with the invalid-input error (ValueError) and nothing else happens: the
\* function never reaches the splitter, and no completion call is issued.
C1_BlankInputFailsFast ==
    Blank(text) =>
        /\ pc \in {"start", "done"}
        /\ calls = <<>>
        /\ docs = <<>>
        /\ responses = <<>>
        /\ pc = "done" => outcome = Raised("ValueError")

C1_Witness ==
    /\ Len(text) >= 2
    /\ Blank(text)
    /\ pc = "done"
    /\ outcome = Raised("ValueError")

\* C2: once the completion client has raised on the map call of chunk i, the
\* run is over with that same exception as its outcome; the calls issued are
\* exactly the map calls of chunks 1..i, each once (no retry of chunk i, no
\* call for a later chunk, no reduce call).
C2_MapErrorAborts ==
    raised.stage = "map" =>
        /\ pc = "done"
        /\ outcome = Raised(raised.exc)
        /\ Len(calls) = raised.chunk
        /\ \A j \in 1..Len(calls) : calls[j].stage = "map" /\ calls[j].chunk = j
        /\ final = <<>>

C2_Witness ==
    /\ raised = [stage |-> "map", chunk |-> 2, exc |-> "Retryable"]
    /\ Len(docs) = 3
    /\ pc = "done"

\* C3: a reduce call is issued only when the map calls of all N chunks have
\* been issued in chunk order and have returned, and the list of partial
\* summaries it is given holds, at position k, what the client returned for
\* chunk k.
C3_ReduceAfterAllMapsInOrder ==
    \A j \in ReduceCalls :
        /\ j = Len(docs) + 1
        /\ Len(responses) >= Len(docs)
        /\ \A k \in 1..Len(docs) : calls[k].stage = "map" /\ calls[k].chunk = k
        /\ Len(calls[j].inputs) = Len(docs)
        /\ \A k \in 1..Len(docs) : calls[j].inputs[k] = responses[k]

C3_Witness ==
    /\ ReduceCalls # {}
    /\ Len(docs) = 3
    /\ responses[1] # responses[2]
    /\ responses[2] # responses[3]

\* C4: a run that returns a summary for N chunks has issued exactly N + 1
\* completion calls: the k-th is the map call of chunk k and carries the text
\* of chunk k, and the last is the one reduce call.
C4_ExactlyNPlusOneCalls ==
    outcome = Returned =>
        /\ Len(calls) = Len(docs) + 1
        /\ \A k \in 1..Len(docs) :
              /\ calls[k].stage = "map"
              /\ calls[k].chunk = k
              /\ calls[k].context = docs[k]
        /\ calls[Len(docs) + 1].stage = "reduce"
        /\ Cardinality(MapCalls) = Len(docs)
        /\ Cardinality(ReduceCalls) = 1

C4_Witness ==
    /\ outcome = Returned
    /\ Len(docs) = 3
    /\ docs[1] # docs[2]
    /\ docs[2] # docs[3]

\* C7 as stated: after the caller has asked for cancellation during the map
\* stage, no further completion call is issued (no map call, no reduce call)
\* and the run ends as Cancelled, without a summary.
C7_CancelStopsRun ==
    cancelRequested =>
        /\ Len(calls) = callsAtCancel
        /\ pc = "done" => outcome = Raised("Cancelled") /\ final = <<>>

\* C7 amended: summarize_text takes no cancellation signal. A request made
\* during the map stage changes nothing: the next map call (or the reduce call)
\* is still issued, no run ends as Cancelled, and the run ends as any other
\* does, returning the summary after all N + 1 calls or with the exception a
\* completion call raised.
C7_CancelIsIgnored ==
    /\ outcome.exc # "Cancelled"
    /\ cancelRequested =>
        /\ pc = "map" => (ENABLED MapIssue) \/ (ENABLED ReduceIssue)
        /\ pc = "done" =>
              \/ outcome = Returned /\ Len(calls) = Len(docs) + 1
              \/ outcome = Raised(raised.exc) /\ raised.stage \in {"map", "reduce"}

C7_Witness ==
    /\ cancelRequested
    /\ callsAtCancel = 1
    /\ Len(docs) = 3
    /\ Len(calls) = 4
    /\ outcome = Returned

\* str.split("\n\n"), the inverse the amended C9 is read through
RECURSIVE SplitAcc(_, _)
SplitAcc(s, cur) ==
    IF s = <<>> THEN <<cur>>
    ELSE IF Len(s) >= 2 /\ s[1] = "\n" /\ s[2] = "\n"
         THEN <<cur>> \o SplitAcc(SubSeq(s, 3, Len(s)), <<>>)
         ELSE SplitAcc(Tail(s), Append(cur, Head(s)))

RECURSIVE SumLen(_)
SumLen(xs) == IF xs = <<>> THEN 0 ELSE Len(Head(xs)) + SumLen(Tail(xs))

CharsOf(s) == {s[i] : i \in 1..Len(s)}

\* C9 as stated: in the body sent by the reduce call every partial summary is
\* tagged by its position, so the body shows the index k of each summary.
C9_BodyTagsEachSummary ==
    \A j \in ReduceCalls :
        \A k \in 1..Len(calls[j].inputs) : ToString(k) \in CharsOf(calls[j].context)

\* C9 amended: the body sent by the single reduce call is the partial
\* summaries in chunk order, each exactly once, separated by a blank line
\* ("\n\n") and nothing else: it carries no position tag.
C9_BodyIsPlainJoin ==
    /\ Cardinality(ReduceCalls) <= 1
    /\ \A j \in ReduceCalls :
          LET body == calls[j].context
              ins == calls[j].inputs
          IN /\ ins = partial
             /\ ins = <<>> => body = <<>>
             /\ ins # <<>> => SplitAcc(body, <<>>) = ins
             /\ ins # <<>> => Len(body) = SumLen(ins) + 2 * (Len(ins) - 1)
             /\ CharsOf(body) \subseteq
                    UNION {CharsOf(ins[k]) : k \in 1..Len(ins)} \cup {"\n"}

C9_Witness ==
    \E j \in ReduceCalls :
        /\ Len(calls[j].inputs) = 3
        /\ calls[j].inputs[1] # calls[j].inputs[2]
        /\ calls[j].inputs[2] # calls[j].inputs[3]

C10_Bound == IF total <= max_results THEN total ELSE max_results

IsPrefix(a, b) == Len(a) <= Len(b) /\ a = SubSeq(b, 1, Len(a))

====
